---- MODULE Spec2Model ----
(***************************************************************************)
(* Model of src/main/io/vtx_control.c: the armed lock latch, the direct    *)
(* band/channel step entry points, the activation-condition selector, the  *)
(* wraparound cyclers and the single-button hold loop.                     *)
(***************************************************************************)
EXTENDS Integers, Naturals, Sequences, FiniteSets, TLC

(* ------------------------------ bounds -------------------------------- *)

\* Largest band/channel/power count a modelled device reports.
MaxCount == 2

\* Number of activation-condition slots that are scanned.
MAX_CHANNEL_ACTIVATION_CONDITION_COUNT == 2

\* Largest number of polls of one button hold.
MaxPolls == 5

\* Largest number of polls of one button hold polled at the blink rate.
MaxBlinkPolls == 8

(* --------------------------- machine integers -------------------------- *)

\* uint8_t holds 0..255
U8 == 256

\* Clock values are counted in ticks of 8 microseconds.  Every time constant
\* of the code (25000, 60000, 1000000, 3000000, 5000000) is a multiple of 8,
\* so 32-bit microsecond arithmetic on readings that are multiples of 8 is
\* exactly 29-bit arithmetic on ticks, wraparound and sign included.
Ticks(us) == us \div 8

\* uint32_t (timeUs_t, ledToggleAt) holds 0..2^32-1 microseconds: 2^29 ticks
U32 == 536870912

\* conversion of an int to uint8_t (argument passing, uint8_t assignment)
ToU8(x) == x % U8

\* conversion of a number of ticks to uint32_t
ToU32(x) == x % U32

\* cmpTimeUs(a, b): the 32-bit difference a - b read as a signed timeDelta_t
cmpTimeUs(a, b) ==
    LET d == (a - b) % U32
    IN  IF d >= U32 \div 2 THEN d - U32 ELSE d

(* ------------------------------- state --------------------------------- *)

VARIABLES
    armed,             \* ARMING_FLAG(ARMED)
    locked,            \* static uint8_t locked
    lastIndex,         \* static uint8_t lastIndex of vtxUpdateActivatedChannel
    band,              \* band held by the VTX driver
    channel,           \* channel held by the VTX driver
    power,             \* power index held by the VTX driver
    capability,        \* vtxDeviceCapability_t reported by the driver
    pc,                \* "idle", or "hold" inside the loop of handleVTXControlButton
    now,               \* last value read from micros()
    start,             \* handleVTXControlButton: start
    ledToggleAt,       \* handleVTXControlButton: ledToggleAt
    ledEnabled,        \* handleVTXControlButton: ledEnabled
    flashesDone,       \* handleVTXControlButton: flashesDone
    actionCounter,     \* handleVTXControlButton: actionCounter
    buttonWasPressed,  \* handleVTXControlButton: buttonWasPressed
    led1,              \* LED1 as last written by LED1_ON / LED1_OFF
    elapsed,           \* ticks really elapsed since start (unbounded)
    polls,             \* polls of the current hold so far
    armedSeen,         \* armed was true at some poll of the current hold
    holds,             \* calls of handleVTXControlButton so far
    snap,              \* measured diff and tier of one earlier poll of the hold
    burst,             \* the flashes and scheduled time of the burst under way
    op                 \* record of the last completed call of an entry point

vars == <<armed, locked, lastIndex, band, channel, power, capability,
          pc, now, start, ledToggleAt, ledEnabled, flashesDone, actionCounter,
          buttonWasPressed, led1, elapsed, polls, armedSeen, holds, snap,
          burst, op>>

holdVars == <<now, start, ledToggleAt, ledEnabled, flashesDone, actionCounter,
              buttonWasPressed, led1, elapsed, polls, armedSeen, holds, snap,
              burst>>

(* -------------------------- input domains ------------------------------ *)

\* uint8_t values the driver may hold: the valid ones, one past, 0 and 255
ByteVals == (0 .. MaxCount + 1) \cup {U8 - 1}

\* uint8_t step arguments: 0, +1 and -1 (which converts to 255)
Steps == {0, 1, ToU8(-1)}

Counts == 0 .. MaxCount

Caps == [bandCount : Counts, channelCount : Counts, powerCount : Counts]

CondIndexes == 0 .. MAX_CHANNEL_ACTIVATION_CONDITION_COUNT - 1

\* vtxConfig()->vtxChannelActivationConditions[index].band / .channel
CondBand(index) == 1 + (index % 2)

CondChannel(index) == 1 + ((index \div 2) % 2)

\* gaps between two successive readings of micros() during a hold
Gaps == {Ticks(8), Ticks(25000), Ticks(975000), Ticks(2000000), U32 \div 4}

\* values of micros() at which a hold may begin
StartTimes == {0, U32 - Ticks(500000)}

(* ----------------------------- driver ---------------------------------- *)

SetBandAndChannel(b, c) ==
    [fn |-> "vtxCommonSetBandAndChannel", a |-> b, b |-> c]

SetPowerByIndex(p) ==
    [fn |-> "vtxCommonSetPowerByIndex", a |-> p, b |-> 0]

\* The driver receives the calls and keeps the values it is handed (a value
\* outside the modelled byte values is refused).
Deliver(calls) ==
    IF calls # <<>> /\ calls[1].a \in ByteVals /\ calls[1].b \in ByteVals
    THEN IF calls[1].fn = "vtxCommonSetBandAndChannel"
         THEN band' = calls[1].a /\ channel' = calls[1].b /\ power' = power
         ELSE power' = calls[1].a /\ band' = band /\ channel' = channel
    ELSE band' = band /\ channel' = channel /\ power' = power

NoOp ==
    [name |-> "none", lockedBefore |-> 0, armed |-> FALSE,
     bandStep |-> 0, channelStep |-> 0, powerStep |-> 0,
     band |-> 0, channel |-> 0, power |-> 0, haveInfo |-> TRUE,
     sets |-> <<>>, saved |-> FALSE, ledOff |-> FALSE, tier |-> 0,
     armedInHold |-> FALSE, elapsed |-> 0, index |-> U8 - 1, active |-> {}]

NoSnap == [taken |-> FALSE, diff |-> 0, tier |-> 0]

(* --------------------------- LockGate ---------------------------------- *)

\* mutant: the latch follows the armed flag and is released on disarm
LockIfArmedFollows(isArmed, wasLocked) == IF isArmed THEN 1 ELSE 0

\* if (ARMING_FLAG(ARMED)) { locked = 1; }
LockIfArmed(isArmed, wasLocked) == IF isArmed THEN 1 ELSE wasLocked

(* ------------------- direct step entry points -------------------------- *)

\* mutant: the sums are handed on without the conversion to uint8_t
StepCallsNoConv(isLocked, b, c, bandStep, channelStep) ==
    IF isLocked = 0
    THEN <<SetBandAndChannel(b + bandStep, c + channelStep)>>
    ELSE <<>>

\* the set call of vtxUpdateBandAndChannel: band + bandStep, channel + channelStep,
\* converted to the uint8_t parameters of vtxCommonSetBandAndChannel
StepCalls(isLocked, b, c, bandStep, channelStep) ==
    IF isLocked = 0
    THEN <<SetBandAndChannel(ToU8(b + bandStep), ToU8(c + channelStep))>>
    ELSE <<>>

vtxUpdateBandAndChannel(name, bandStep, channelStep) ==
    /\ pc = "idle"
    /\ \E got \in BOOLEAN :
         LET l == LockIfArmed(armed, locked)
             \* band and channel stay 0 when the query fails; its result is ignored
             b == IF got THEN band ELSE 0
             c == IF got THEN channel ELSE 0
             calls == StepCalls(l, b, c, bandStep, channelStep)
         IN  /\ locked' = l
             /\ Deliver(calls)
             /\ op' = [NoOp EXCEPT !.name = name, !.lockedBefore = locked,
                                   !.armed = armed, !.bandStep = bandStep,
                                   !.channelStep = channelStep, !.band = b,
                                   !.channel = c, !.haveInfo = got,
                                   !.sets = calls]
    /\ UNCHANGED <<armed, lastIndex, capability, pc>>
    /\ UNCHANGED holdVars

vtxIncrementBand == vtxUpdateBandAndChannel("vtxIncrementBand", ToU8(1), 0)

vtxDecrementBand == vtxUpdateBandAndChannel("vtxDecrementBand", ToU8(-1), 0)

vtxIncrementChannel == vtxUpdateBandAndChannel("vtxIncrementChannel", 0, ToU8(1))

vtxDecrementChannel == vtxUpdateBandAndChannel("vtxDecrementChannel", 0, ToU8(-1))

(* ------------------------ ActivationSelector --------------------------- *)

\* mutant: nothing is applied once an index has been applied
SelectIndexSettles(act, last) ==
    LET hits == {i \in CondIndexes : act[i] /\ last = U8 - 1}
    IN  IF hits = {} THEN U8 - 1
        ELSE CHOOSE i \in hits : \A j \in hits : i <= j

\* mutant: the scan runs from the highest index down
SelectIndexHighest(act, last) ==
    LET hits == {i \in CondIndexes : act[i] /\ i # last}
    IN  IF hits = {} THEN U8 - 1
        ELSE CHOOSE i \in hits : \A j \in hits : i >= j

\* mutant: the scan does not compare with the last index
SelectIndexNoMemory(act, last) ==
    LET hits == {i \in CondIndexes : act[i]}
    IN  IF hits = {} THEN U8 - 1
        ELSE CHOOSE i \in hits : \A j \in hits : i <= j

\* the index at which the scan of lines 95-105 stops with a hit, or 255 for none
SelectIndex(act, last) ==
    LET hits == {i \in CondIndexes : act[i] /\ i # last}
    IN  IF hits = {} THEN U8 - 1
        ELSE CHOOSE i \in hits : \A j \in hits : i <= j

ActivationCalls(isLocked, index) ==
    IF isLocked = 0 /\ index \in CondIndexes
    THEN <<SetBandAndChannel(CondBand(index), CondChannel(index))>>
    ELSE <<>>

vtxUpdateActivatedChannel ==
    /\ pc = "idle"
    /\ \E isRangeActive \in [CondIndexes -> BOOLEAN] :
         LET l == LockIfArmed(armed, locked)
             index == IF l = 0 THEN SelectIndex(isRangeActive, lastIndex)
                      ELSE U8 - 1
             calls == ActivationCalls(l, index)
         IN  /\ locked' = l
             /\ lastIndex' = IF index \in CondIndexes THEN index ELSE lastIndex
             /\ Deliver(calls)
             /\ op' = [NoOp EXCEPT !.name = "vtxUpdateActivatedChannel",
                                   !.lockedBefore = locked, !.armed = armed,
                                   !.sets = calls, !.index = index,
                                   !.active = {i \in CondIndexes : isRangeActive[i]}]
    /\ UNCHANGED <<armed, capability, pc>>
    /\ UNCHANGED holdVars

(* ------------------------- WraparoundCycler ---------------------------- *)

\* mutant: the upper wrap fires at count already
WrapBandOrChannelAtCount(current, step, count) ==
    LET next == current + step
    IN  IF next >= count THEN 1
        ELSE IF next < 1 THEN count
        ELSE next

\* mutant: the wrap above count is missing
WrapBandOrChannelNoUpper(current, step, count) ==
    LET next == current + step
    IN  IF next < 1 THEN count ELSE next

\* int newChannel = channel + channelStep; wrap above count to 1, below 1 to count
WrapBandOrChannel(current, step, count) ==
    LET next == current + step
    IN  IF next > count THEN 1
        ELSE IF next < 1 THEN count
        ELSE next

\* int newPower = power + powerStep; wrap at count to 0, below 0 to count
WrapPower(current, step, count) ==
    LET next == current + step
    IN  IF next >= count THEN 0
        ELSE IF next < 0 THEN count
        ELSE next

\* the set call of vtxCycleBandOrChannel, none when a query failed
CycleBandOrChannelCalls(haveAllNeededInfo, b, c, cap, bandStep, channelStep) ==
    IF ~haveAllNeededInfo THEN <<>>
    ELSE LET newChannel == WrapBandOrChannel(c, channelStep, cap.channelCount)
             newBand == WrapBandOrChannel(b, bandStep, cap.bandCount)
         IN  <<SetBandAndChannel(ToU8(newBand), ToU8(newChannel))>>

\* the set call of vtxCyclePower, none when a query failed
CyclePowerCalls(haveAllNeededInfo, p, cap, powerStep) ==
    IF ~haveAllNeededInfo THEN <<>>
    ELSE <<SetPowerByIndex(ToU8(WrapPower(p, powerStep, cap.powerCount)))>>

vtxCycleBandOrChannel ==
    /\ pc = "idle"
    /\ \E bandStep \in Steps, channelStep \in Steps,
          haveAllNeededInfo \in BOOLEAN :
         LET calls == CycleBandOrChannelCalls(haveAllNeededInfo, band, channel,
                                              capability, bandStep, channelStep)
         IN  /\ Deliver(calls)
             /\ op' = [NoOp EXCEPT !.name = "vtxCycleBandOrChannel",
                                   !.lockedBefore = locked, !.armed = armed,
                                   !.bandStep = bandStep,
                                   !.channelStep = channelStep,
                                   !.band = band, !.channel = channel,
                                   !.haveInfo = haveAllNeededInfo,
                                   !.sets = calls]
    /\ UNCHANGED <<armed, locked, lastIndex, capability, pc>>
    /\ UNCHANGED holdVars

vtxCyclePower ==
    /\ pc = "idle"
    /\ \E powerStep \in Steps, haveAllNeededInfo \in BOOLEAN :
         LET calls == CyclePowerCalls(haveAllNeededInfo, power, capability, powerStep)
         IN  /\ Deliver(calls)
             /\ op' = [NoOp EXCEPT !.name = "vtxCyclePower",
                                   !.lockedBefore = locked, !.armed = armed,
                                   !.powerStep = powerStep, !.power = power,
                                   !.haveInfo = haveAllNeededInfo,
                                   !.sets = calls]
    /\ UNCHANGED <<armed, locked, lastIndex, capability, pc>>
    /\ UNCHANGED holdVars

(* --------------------------- environment ------------------------------- *)

\* the vehicle is armed
Arm ==
    /\ ~armed
    /\ armed' = TRUE
    /\ UNCHANGED <<locked, lastIndex, band, channel, power, capability,
                   pc, op>>
    /\ UNCHANGED holdVars

\* the vehicle is disarmed
Disarm ==
    /\ armed
    /\ armed' = FALSE
    /\ UNCHANGED <<locked, lastIndex, band, channel, power, capability,
                   pc, op>>
    /\ UNCHANGED holdVars

(* ------------------- HoldClassifier / FeedbackBlinker ------------------ *)

\* mutant: the band tier lasts until 5 s and the power tier is gone
ClassifyHoldWideBand(diff, counter) ==
    IF diff > Ticks(25000) /\ diff <= Ticks(1000000) THEN 4
    ELSE IF diff > Ticks(1000000) /\ diff <= Ticks(5000000) THEN 3
    ELSE IF diff > Ticks(5000000) THEN 1
    ELSE counter

\* mutant: the tiers are numbered upward with the hold time
ClassifyHoldAscending(diff, counter) ==
    IF diff > Ticks(25000) /\ diff <= Ticks(1000000) THEN 1
    ELSE IF diff > Ticks(1000000) /\ diff <= Ticks(3000000) THEN 2
    ELSE IF diff > Ticks(3000000) /\ diff <= Ticks(5000000) THEN 3
    ELSE IF diff > Ticks(5000000) THEN 4
    ELSE counter

\* lines 187-195: the tier for the measured diff; no branch taken keeps the old one
ClassifyHold(diff, counter) ==
    IF diff > Ticks(25000) /\ diff <= Ticks(1000000) THEN 4
    ELSE IF diff > Ticks(1000000) /\ diff <= Ticks(3000000) THEN 3
    ELSE IF diff > Ticks(3000000) /\ diff <= Ticks(5000000) THEN 2
    ELSE IF diff > Ticks(5000000) THEN 1
    ELSE counter

\* mutant: the pause takes off one half-period for each flash, not two
BlinkStepShortCut(end, counter, toggleAt, enabled, done) ==
    IF cmpTimeUs(toggleAt, end) < 0
    THEN LET on == ~enabled
             at == ToU32(end + Ticks(60000))
             flashes == IF on THEN done ELSE ToU8(done + 1)
         IN  IF flashes = counter
             THEN [toggled |-> TRUE, ledEnabled |-> on,
                   ledToggleAt |-> ToU32(at + Ticks(1000000 - (flashes * 60000))),
                   flashesDone |-> 0]
             ELSE [toggled |-> TRUE, ledEnabled |-> on, ledToggleAt |-> at,
                   flashesDone |-> flashes]
    ELSE [toggled |-> FALSE, ledEnabled |-> enabled, ledToggleAt |-> toggleAt,
          flashesDone |-> done]

\* lines 199-219: one pass of the blink code at time end with tier counter >= 1
BlinkStep(end, counter, toggleAt, enabled, done) ==
    IF cmpTimeUs(toggleAt, end) < 0
    THEN LET on == ~enabled
             at == ToU32(end + Ticks(60000))
             flashes == IF on THEN done ELSE ToU8(done + 1)
         IN  IF flashes = counter
             THEN [toggled |-> TRUE, ledEnabled |-> on,
                   ledToggleAt |-> ToU32(at + Ticks(1000000 - ((flashes * 60000) * 2))),
                   flashesDone |-> 0]
             ELSE [toggled |-> TRUE, ledEnabled |-> on, ledToggleAt |-> at,
                   flashesDone |-> flashes]
    ELSE [toggled |-> FALSE, ledEnabled |-> enabled, ledToggleAt |-> toggleAt,
          flashesDone |-> done]

\* no burst under way
NoBurst == [tier |-> 0, flashes |-> 0, sum |-> 0]

\* The burst under way after a pass of the blink code at time end with tier
\* counter >= 1.  A burst begins at an on-toggle made with flashesDone = 0; it
\* counts its off-toggles and adds up the delays its toggles schedule; it is
\* dropped when the tier changes before the next burst begins.
BurstStep(end, counter, done, blink, b) ==
    LET delay == cmpTimeUs(blink.ledToggleAt, end)
    IN  IF blink.toggled /\ blink.ledEnabled /\ done = 0
        THEN [tier |-> counter, flashes |-> 0, sum |-> delay]
        ELSE IF counter # b.tier THEN NoBurst
        ELSE IF blink.toggled
        THEN [tier |-> b.tier,
              flashes |-> b.flashes + (IF blink.ledEnabled THEN 0 ELSE 1),
              sum |-> b.sum + delay]
        ELSE b

\* lines 175-181: the button handler is entered and reads micros()
HoldEnter ==
    /\ pc = "idle"
    /\ holds = 0      \* a behaviour follows one call of the handler
    /\ holds' = holds + 1
    /\ pc' = "hold"
    /\ \E t \in StartTimes : now' = t /\ start' = t /\ ledToggleAt' = t
    /\ buttonWasPressed' = FALSE
    /\ ledEnabled' = FALSE
    /\ flashesDone' = 0
    /\ actionCounter' = 0
    /\ elapsed' = 0
    /\ polls' = 0
    /\ armedSeen' = FALSE
    /\ snap' = NoSnap
    /\ burst' = NoBurst
    /\ op' = NoOp
    /\ UNCHANGED <<armed, locked, lastIndex, band, channel, power,
                   capability, led1>>

\* lines 183-221: buttonAPressed() is true; one pass of the loop body, the clock
\* having advanced by one of the given gaps
PollWith(gaps, bound) ==
    /\ pc = "hold"
    /\ polls < bound
    /\ \E dt \in gaps :
         LET end == ToU32(now + dt)
             counter == ClassifyHold(cmpTimeUs(end, start), actionCounter)
             blink == BlinkStep(end, counter, ledToggleAt, ledEnabled, flashesDone)
         IN  /\ now' = end
             /\ elapsed' = elapsed + dt
             /\ actionCounter' = counter
             /\ snap' \in IF snap.taken THEN {snap}
                          ELSE {snap, [taken |-> TRUE, tier |-> counter,
                                       diff |-> cmpTimeUs(end, start)]}
             /\ IF counter # 0
                THEN /\ ledToggleAt' = blink.ledToggleAt
                     /\ ledEnabled' = blink.ledEnabled
                     /\ flashesDone' = blink.flashesDone
                     /\ led1' = IF blink.toggled THEN blink.ledEnabled ELSE led1
                     /\ buttonWasPressed' = TRUE
                     /\ burst' = BurstStep(end, counter, flashesDone, blink, burst)
                ELSE UNCHANGED <<ledToggleAt, ledEnabled, flashesDone, led1,
                                 buttonWasPressed, burst>>
    /\ polls' = polls + 1
    /\ armedSeen' = (armedSeen \/ armed)
    /\ UNCHANGED <<armed, locked, lastIndex, band, channel, power,
                   capability, pc, start, holds, op>>

Poll == PollWith(Gaps, MaxPolls)

\* gaps of the 4.2 second hold: 2 s + 2 s + 200 ms
ScenarioGaps == {Ticks(200000), Ticks(2000000)}

PollScenario == PollWith(ScenarioGaps, MaxPolls)

\* gaps of a hold polled at the blink rate: just over one 60 ms half-period
\* (8 us late), and the 2 s and 4 s that lead into the tiers 3, 2 and 1
BlinkGaps == {Ticks(60008), Ticks(2000000), Ticks(4000000)}

PollBlink == PollWith(BlinkGaps, MaxBlinkPolls)

(* --------------------------- ActionDispatcher -------------------------- *)

\* mutant: the actions of tier 4 and tier 3 are exchanged
DispatchCallsSwapped(tier, haveAllNeededInfo, b, c, p, cap) ==
    IF tier = 3
    THEN CycleBandOrChannelCalls(haveAllNeededInfo, b, c, cap, 0, ToU8(1))
    ELSE IF tier = 4
    THEN CycleBandOrChannelCalls(haveAllNeededInfo, b, c, cap, ToU8(1), 0)
    ELSE IF tier = 2
    THEN CyclePowerCalls(haveAllNeededInfo, p, cap, ToU8(1))
    ELSE <<>>

\* lines 230-243: the driver set call of the action chosen by the tier
DispatchCalls(tier, haveAllNeededInfo, b, c, p, cap) ==
    IF tier = 4
    THEN CycleBandOrChannelCalls(haveAllNeededInfo, b, c, cap, 0, ToU8(1))
    ELSE IF tier = 3
    THEN CycleBandOrChannelCalls(haveAllNeededInfo, b, c, cap, ToU8(1), 0)
    ELSE IF tier = 2
    THEN CyclePowerCalls(haveAllNeededInfo, p, cap, ToU8(1))
    ELSE <<>>

\* case 1: saveConfigAndNotify()
DispatchSaves(tier) == tier = 1

\* lines 183 and 224-243: buttonAPressed() is false; the loop ends and dispatches
Release ==
    /\ pc = "hold"
    /\ pc' = "idle"
    /\ \E haveAllNeededInfo \in BOOLEAN :
         LET calls == IF buttonWasPressed
                      THEN DispatchCalls(actionCounter, haveAllNeededInfo,
                                         band, channel, power, capability)
                      ELSE <<>>
         IN  /\ Deliver(calls)
             /\ op' = [NoOp EXCEPT !.name = "handleVTXControlButton",
                                   !.lockedBefore = locked, !.armed = armed,
                                   !.band = band, !.channel = channel,
                                   !.power = power,
                                   !.haveInfo = haveAllNeededInfo,
                                   !.sets = calls,
                                   !.saved = (buttonWasPressed
                                              /\ DispatchSaves(actionCounter)),
                                   !.ledOff = buttonWasPressed,
                                   !.tier = actionCounter,
                                   !.armedInHold = armedSeen,
                                   !.elapsed = elapsed]
    /\ led1' = IF buttonWasPressed THEN FALSE ELSE led1
    /\ start' = 0
    /\ ledToggleAt' = 0
    /\ ledEnabled' = FALSE
    /\ flashesDone' = 0
    /\ actionCounter' = 0
    /\ buttonWasPressed' = FALSE
    /\ elapsed' = 0
    /\ polls' = 0
    /\ armedSeen' = FALSE
    /\ snap' = NoSnap
    /\ burst' = NoBurst
    /\ UNCHANGED <<armed, locked, lastIndex, capability, now, holds>>

(* ---------------------------- specifications --------------------------- *)

\* state after startup: locked = 0, lastIndex = (uint8_t)-1, nothing running
InitCommon ==
    /\ armed = FALSE
    /\ locked = 0
    /\ lastIndex = ToU8(-1)
    /\ pc = "idle"
    /\ now = 0
    /\ start = 0
    /\ ledToggleAt = 0
    /\ ledEnabled = FALSE
    /\ flashesDone = 0
    /\ actionCounter = 0
    /\ buttonWasPressed = FALSE
    /\ led1 = FALSE
    /\ elapsed = 0
    /\ polls = 0
    /\ armedSeen = FALSE
    /\ holds = 0
    /\ snap = NoSnap
    /\ burst = NoBurst
    /\ op = NoOp

\* a device with valid settings
Init ==
    /\ InitCommon
    /\ capability \in {cap \in Caps : cap.bandCount = MaxCount
                                      /\ cap.channelCount = MaxCount
                                      /\ cap.powerCount = MaxCount}
    /\ band \in 1 .. capability.bandCount
    /\ channel \in 1 .. capability.channelCount
    /\ power \in 0 .. capability.powerCount - 1

\* any device, any band/channel pair or any power index held by the driver,
\* stale ones included
InitCycle ==
    /\ InitCommon
    /\ capability \in Caps
    /\ band \in ByteVals
    /\ channel \in ByteVals
    /\ power \in ByteVals
    /\ power = 0 \/ (band = 1 /\ channel = 1)

\* the entry points called by the scheduler, and the arming switch
Next ==
    \/ Arm
    \/ Disarm
    \/ vtxIncrementBand
    \/ vtxDecrementBand
    \/ vtxIncrementChannel
    \/ vtxDecrementChannel
    \/ vtxUpdateActivatedChannel
    \/ vtxCycleBandOrChannel
    \/ vtxCyclePower

Spec == Init /\ [][Next]_vars

\* the device of the 4.2 second scenario: five bands, eight channels, band 2
InitScenario ==
    /\ InitCommon
    /\ capability = [bandCount |-> 5, channelCount |-> 8, powerCount |-> 5]
    /\ band = 2
    /\ channel \in {1, 8}
    /\ power \in {0, 4}

\* the button handler polled along the 4.2 second scenario
NextScenario ==
    \/ Arm
    \/ Disarm
    \/ HoldEnter
    \/ PollScenario
    \/ Release

SpecScenario == InitScenario /\ [][NextScenario]_vars

\* the button handler, and the arming switch
NextButton ==
    \/ Arm
    \/ Disarm
    \/ HoldEnter
    \/ Poll
    \/ Release

InitButton ==
    /\ InitCommon
    /\ capability = [bandCount |-> MaxCount, channelCount |-> MaxCount,
                     powerCount |-> MaxCount]
    /\ band = 1
    /\ channel = MaxCount
    /\ power = 0

SpecButton == InitButton /\ [][NextButton]_vars

\* the button handler polled at the blink rate
NextBlink ==
    \/ HoldEnter
    \/ PollBlink
    \/ Release

SpecBlink == InitButton /\ [][NextBlink]_vars

\* the cyclers over every driver state
NextCycle ==
    \/ vtxCycleBandOrChannel
    \/ vtxCyclePower

SpecCycle == InitCycle /\ [][NextCycle]_vars

(* ------------------------------ claims ---------------------------------- *)

\* the entry points that read ARMING_FLAG(ARMED) and set the latch
LockingEntryPoints ==
    {"vtxIncrementBand", "vtxDecrementBand", "vtxIncrementChannel",
     "vtxDecrementChannel", "vtxUpdateActivatedChannel"}

\* C1 (as claimed): a call of any mutation path that begins with the latch set
\* issues no driver set call.
C1_LockedIssuesNoSet ==
    op.lockedBefore = 1 => op.sets = <<>>

\* C2 (as claimed): a release of the button with the armed flag seen true at a
\* poll of the hold and still true at release issues no driver set call.
C2_ArmedHoldIssuesNoSet ==
    (op.name = "handleVTXControlButton" /\ op.armedInHold /\ op.armed)
        => op.sets = <<>>

C4_CycleInRange ==
    (op.name = "vtxCycleBandOrChannel" /\ op.sets # <<>>) =>
        /\ capability.bandCount >= 1 =>
               op.sets[1].a \in 1 .. capability.bandCount
        /\ capability.channelCount >= 1 =>
               op.sets[1].b \in 1 .. capability.channelCount

\* C4 witness: a stale band above the count is read and band 1 is handed on
C4_Witness ==
    /\ op.name = "vtxCycleBandOrChannel"
    /\ op.sets # <<>>
    /\ capability.bandCount >= 1
    /\ op.band > capability.bandCount
    /\ op.bandStep = 0
    /\ op.sets[1].a = 1

\* the step of a uint8_t argument read as the signed step the caller wrote
SignedStep(step) == IF step >= U8 \div 2 THEN step - U8 ELSE step

\* circular successor of current in [1, count] by a signed step of +1 or -1
Circular(current, signed, count) ==
    IF current + signed > count THEN 1
    ELSE IF current + signed < 1 THEN count
    ELSE current + signed

\* C5 (as claimed): vtxCycleBandOrChannel steps a band or channel in [1, count]
\* circularly in both directions: current + step inside the range, count -> 1
\* for +1 and 1 -> count for -1.
C5_CycleIsCircular ==
    (op.name = "vtxCycleBandOrChannel" /\ op.sets # <<>>) =>
        /\ (/\ capability.bandCount >= 1
            /\ op.band \in 1 .. capability.bandCount
            /\ SignedStep(op.bandStep) \in {-1, 1}) =>
               op.sets[1].a = Circular(op.band, SignedStep(op.bandStep),
                                       capability.bandCount)
        /\ (/\ capability.channelCount >= 1
            /\ op.channel \in 1 .. capability.channelCount
            /\ SignedStep(op.channelStep) \in {-1, 1}) =>
               op.sets[1].b = Circular(op.channel, SignedStep(op.channelStep),
                                       capability.channelCount)

\* C6 (as claimed): vtxCyclePower on a power in [0, count-1] with a step of +1
\* or -1 hands the driver a value in [0, count]; count-1 with +1 gives 0 and
\* 0 with -1 gives count.
C6_PowerCycle ==
    (/\ op.name = "vtxCyclePower"
     /\ op.sets # <<>>
     /\ capability.powerCount >= 1
     /\ op.power \in 0 .. capability.powerCount - 1
     /\ SignedStep(op.powerStep) \in {-1, 1}) =>
        /\ op.sets[1].a \in 0 .. capability.powerCount
        /\ (op.power = capability.powerCount - 1 /\ SignedStep(op.powerStep) = 1)
               => op.sets[1].a = 0
        /\ (op.power = 0 /\ SignedStep(op.powerStep) = -1)
               => op.sets[1].a = capability.powerCount

\* the four direct step entry points
StepEntryPoints ==
    {"vtxIncrementBand", "vtxDecrementBand", "vtxIncrementChannel",
     "vtxDecrementChannel"}

\* C7 (as claimed): unlocked, the increment entry points at the count set 1 and
\* the decrement entry points at 1 set the count.
C7_StepWrapsInCapability ==
    (op.name \in StepEntryPoints /\ op.sets # <<>> /\ op.haveInfo) =>
        /\ (op.name = "vtxIncrementBand" /\ op.band = capability.bandCount)
               => op.sets[1].a = 1
        /\ (op.name = "vtxIncrementChannel"
            /\ op.channel = capability.channelCount) => op.sets[1].b = 1
        /\ (op.name = "vtxDecrementBand" /\ op.band = 1)
               => op.sets[1].a = capability.bandCount
        /\ (op.name = "vtxDecrementChannel" /\ op.channel = 1)
               => op.sets[1].b = capability.channelCount

\* C7 (amended): unlocked, a step entry point hands the driver the value read
\* plus or minus one modulo 256 in its own coordinate and the value read in the
\* other; the capability plays no part, so increment at the count hands
\* count + 1 and decrement at 1 hands 0.
C7_StepIsPlainByteAdd ==
    (op.name \in StepEntryPoints /\ op.sets # <<>> /\ op.haveInfo) =>
        /\ Len(op.sets) = 1
        /\ op.sets[1].fn = "vtxCommonSetBandAndChannel"
        /\ op.name = "vtxIncrementBand" =>
               op.sets[1].a = (op.band + 1) % 256 /\ op.sets[1].b = op.channel
        /\ op.name = "vtxDecrementBand" =>
               op.sets[1].a = (op.band + 255) % 256 /\ op.sets[1].b = op.channel
        /\ op.name = "vtxIncrementChannel" =>
               op.sets[1].a = op.band /\ op.sets[1].b = (op.channel + 1) % 256
        /\ op.name = "vtxDecrementChannel" =>
               op.sets[1].a = op.band /\ op.sets[1].b = (op.channel + 255) % 256

\* C7 witness: vtxIncrementBand at band = bandCount hands bandCount + 1
C7_Witness ==
    /\ op.name = "vtxIncrementBand"
    /\ op.haveInfo
    /\ op.band = capability.bandCount
    /\ op.sets # <<>>
    /\ op.sets[1].a = capability.bandCount + 1

\* the tier the claim gives for a time elapsed since the press began
TierOfElapsed(e) ==
    IF e <= Ticks(25000) THEN 0
    ELSE IF e <= Ticks(1000000) THEN 4
    ELSE IF e <= Ticks(3000000) THEN 3
    ELSE IF e <= Ticks(5000000) THEN 2
    ELSE 1

\* C8 (as claimed): after each poll of a hold the tier is the function
\* TierOfElapsed of the time elapsed since the press began.
C8_TierIsFunctionOfElapsed ==
    (pc = "hold" /\ polls >= 1) => actionCounter = TierOfElapsed(elapsed)

\* C9 (as claimed): for two polls of one hold, the earlier one's tier is at most
\* the later one's.
C9_TierNonDecreasing ==
    (pc = "hold" /\ snap.taken) => snap.tier <= actionCounter

\* C9 (amended): for two polls of one hold whose measured differences d1 <= d2
\* are both above 25 ms, the tier at d1 is at least the tier at d2, which is at
\* least 1; and a tier that was nonzero at a poll is nonzero at every later one.
C9_TierNonIncreasing ==
    (pc = "hold" /\ snap.taken) =>
        /\ (Ticks(25000) < snap.diff /\ snap.diff <= cmpTimeUs(now, start)) =>
               (snap.tier >= actionCounter /\ actionCounter >= 1)
        /\ snap.tier >= 1 => actionCounter >= 1

\* C9 witness: an earlier poll of the hold had tier 4, the latest has tier 1
C9_Witness ==
    /\ pc = "hold"
    /\ snap.taken
    /\ Ticks(25000) < snap.diff
    /\ snap.diff < cmpTimeUs(now, start)
    /\ snap.tier = 4
    /\ actionCounter = 1

\* C10: the release performs the one action of the tier of the last poll:
\* 4 steps the channel by +1, 3 the band by +1, 2 the power by +1 (each one set
\* call, none when a driver query fails), 1 saves; tier 0 does nothing at all,
\* not even the indicator write, and the tier is 0 exactly when no poll saw more
\* than 25 ms elapsed.
C10_ReleaseDispatchesTier ==
    op.name = "handleVTXControlButton" =>
        /\ op.tier \in 0 .. 4
        /\ op.tier = 0 <=> op.elapsed <= Ticks(25000)
        /\ op.ledOff <=> op.tier # 0
        /\ op.saved <=> op.tier = 1
        /\ (op.tier \in {0, 1} \/ ~op.haveInfo) => op.sets = <<>>
        /\ (op.tier = 4 /\ op.haveInfo) =>
               op.sets = <<SetBandAndChannel(op.band,
                               IF op.channel + 1 > capability.channelCount
                               THEN 1 ELSE op.channel + 1)>>
        /\ (op.tier = 3 /\ op.haveInfo) =>
               op.sets = <<SetBandAndChannel(
                               IF op.band + 1 > capability.bandCount
                               THEN 1 ELSE op.band + 1, op.channel)>>
        /\ (op.tier = 2 /\ op.haveInfo) =>
               op.sets = <<SetPowerByIndex(
                               IF op.power + 1 >= capability.powerCount
                               THEN 0 ELSE op.power + 1)>>

\* C10 witness: a release at tier 3 has stepped the band and nothing else
C10_Witness ==
    /\ op.name = "handleVTXControlButton"
    /\ op.tier = 3
    /\ op.sets = <<SetBandAndChannel(op.band + 1, op.channel)>>
    /\ ~op.saved

\* C11 (as claimed): a release after a hold of 4.2 s, with five bands and band 2,
\* hands the driver band 3 with the channel unchanged.
C11_HoldOf4200msStepsBand ==
    (/\ op.name = "handleVTXControlButton"
     /\ op.elapsed = Ticks(4200000)
     /\ op.haveInfo
     /\ capability.bandCount = 5
     /\ op.band = 2) =>
        op.sets = <<SetBandAndChannel(3, op.channel)>>

\* C11 (amended): a release after a hold of 4.2 s is at tier 2 and steps the
\* power by +1 (to 0 from the last index); it issues no band/channel set call.
C11_HoldOf4200msStepsPower ==
    (op.name = "handleVTXControlButton" /\ op.elapsed = Ticks(4200000)) =>
        /\ op.tier = 2
        /\ ~op.saved
        /\ op.sets = IF op.haveInfo
                     THEN <<SetPowerByIndex(
                              IF op.power + 1 >= capability.powerCount
                              THEN 0 ELSE op.power + 1)>>
                     ELSE <<>>

\* C11 witness: five bands, band 2, hold of 4.2 s: power 0 is stepped to 1
C11_Witness ==
    /\ op.name = "handleVTXControlButton"
    /\ op.elapsed = Ticks(4200000)
    /\ capability.bandCount = 5
    /\ op.band = 2
    /\ band = 2
    /\ op.sets = <<SetPowerByIndex(1)>>

\* a step that is an unlocked call of vtxUpdateActivatedChannel
UnlockedPollStep ==
    /\ op' # op
    /\ op'.name = "vtxUpdateActivatedChannel"
    /\ op'.lockedBefore = 0
    /\ ~op'.armed

\* the last completed call was an unlocked call of vtxUpdateActivatedChannel
LastWasUnlockedPoll ==
    /\ op.name = "vtxUpdateActivatedChannel"
    /\ op.lockedBefore = 0
    /\ ~op.armed

\* the set call that applies condition index
Applies(index) == <<SetBandAndChannel(CondBand(index), CondChannel(index))>>

\* C12 (as claimed): over consecutive unlocked polls with i the only active
\* condition, the set call for i is issued on the first of them and on no later
\* one; a poll at which another index j is newly active applies j.
C12_AppliedOnFirstPollOnly ==
    [][(UnlockedPollStep /\ (op.name = "none" \/ LastWasUnlockedPoll)) =>
          \A i \in CondIndexes :
              /\ (op'.active = {i} /\ op.active = {i}) => op'.sets = <<>>
              /\ (op'.active = {i} /\ op.active # {i}) => op'.sets = Applies(i)
              /\ \A j \in CondIndexes \ {i} :
                     (op.active = {i} /\ op'.active \in {{j}, {i, j}}) =>
                         op'.sets = Applies(j)]_vars

\* C12 (amended): over consecutive unlocked polls with i the only active
\* condition, no poll after the first issues a set call, and the first issues
\* the set call for i exactly when i is not the remembered last index; a poll at
\* which another index j is newly active applies j and remembers it.
C12_NotReappliedNewApplied ==
    [][(UnlockedPollStep /\ (op.name = "none" \/ LastWasUnlockedPoll)) =>
          \A i \in CondIndexes :
              /\ (op'.active = {i} /\ op.active = {i}) =>
                     (op'.sets = <<>> /\ lastIndex = i /\ lastIndex' = i)
              /\ (op'.active = {i} /\ op.active # {i}) =>
                     /\ op'.sets = IF lastIndex = i THEN <<>> ELSE Applies(i)
                     /\ lastIndex' = i
              /\ \A j \in CondIndexes \ {i} :
                     (op.active = {i} /\ op'.active \in {{j}, {i, j}}) =>
                         (op'.sets = Applies(j) /\ lastIndex' = j)]_vars

\* C12 witness: a poll with only condition 0 active, already the last index,
\* has issued no set call
C12_Witness ==
    /\ LastWasUnlockedPoll
    /\ op.active = {0}
    /\ op.sets = <<>>
    /\ lastIndex = 0
    /\ locked = 0

\* the operations that query the driver before they set
QueryingOperations ==
    StepEntryPoints \cup {"vtxCycleBandOrChannel", "vtxCyclePower"}

\* C13: an operation whose driver query failed issues no driver set call.
C13_FailedQueryIssuesNoSet ==
    (op.name \in QueryingOperations /\ ~op.haveInfo) => op.sets = <<>>

\* C14: an unlocked call of vtxUpdateActivatedChannel issues at most one set
\* call: it applies the lowest-indexed active condition whose index differs
\* from the last index and remembers it; with no such condition it issues no
\* set call and keeps the last index.  The last index starts at 255, which is
\* no valid index.
C14_AppliesLowestDiffering ==
    /\ lastIndex = U8 - 1
    /\ (U8 - 1) \notin CondIndexes
    /\ [][UnlockedPollStep =>
             LET differing == {i \in op'.active : i # lastIndex}
             IN  /\ Len(op'.sets) <= 1
                 /\ differing = {} =>
                        (op'.sets = <<>> /\ lastIndex' = lastIndex)
                 /\ \A i \in differing :
                        (\A j \in differing : i <= j) =>
                            (op'.sets = Applies(i) /\ lastIndex' = i)]_vars

\* C14 witness: with both conditions active and condition 0 the last index, a
\* poll has applied condition 1
C14_Witness ==
    /\ LastWasUnlockedPoll
    /\ op.active = {0, 1}
    /\ op.sets = Applies(1)
    /\ lastIndex = 1
    /\ locked = 0

\* C19: while two or more conditions are active, every unlocked poll issues
\* exactly one set call, for an index other than the one applied before; with
\* the same two conditions active at consecutive polls the applied index
\* alternates between them.
C19_AlternatesWhileSeveralActive ==
    [][(UnlockedPollStep /\ Cardinality(op'.active) >= 2) =>
          /\ op'.index \in op'.active
          /\ op'.index # lastIndex
          /\ op'.sets = Applies(op'.index)
          /\ lastIndex' = op'.index
          /\ (LastWasUnlockedPoll /\ op.active = op'.active) =>
                 /\ op.index \in op.active
                 /\ op'.index # op.index
                 /\ Cardinality(op.active) = 2 =>
                        op'.active = {op.index, op'.index}]_vars

\* C19 witness: with both conditions active and condition 1 the last index, a
\* poll has gone back to condition 0
C19_Witness ==
    /\ LastWasUnlockedPoll
    /\ op.active = {0, 1}
    /\ op.index = 0
    /\ op.sets = Applies(0)
    /\ lastIndex = 0
    /\ band = CondBand(0)
    /\ channel = CondChannel(0)
    /\ power # 0

\* the value vtxCycleBandOrChannel passes for a dimension whose step is 0
Unstepped(current, count) ==
    IF current >= 1 /\ current <= count THEN current
    ELSE IF current > count THEN 1
    ELSE count

\* C20: vtxCycleBandOrChannel with a step of 0 for one dimension passes that
\* dimension's current value unchanged when it lies in 1 .. count, and rewrites
\* it only when it is 0 or above count.
C20_ZeroStepKeepsDimension ==
    (op.name = "vtxCycleBandOrChannel" /\ op.haveInfo) =>
        /\ Len(op.sets) = 1
        /\ op.bandStep = 0 =>
               op.sets[1].a = Unstepped(op.band, capability.bandCount)
        /\ op.channelStep = 0 =>
               op.sets[1].b = Unstepped(op.channel, capability.channelCount)

\* C20 witness: a channel step from band MaxCount has passed the band on
C20_Witness ==
    /\ op.name = "vtxCycleBandOrChannel"
    /\ op.haveInfo
    /\ op.bandStep = 0
    /\ op.channelStep = 1
    /\ capability.bandCount = MaxCount
    /\ capability.channelCount = MaxCount
    /\ op.band = MaxCount
    /\ op.channel = 1
    /\ op.sets = <<SetBandAndChannel(MaxCount, 2)>>

\* C15: a burst begun and continued at one tier N shows N flashes: its flashes
\* are counted by flashesDone, and the off-toggle that completes the N-th one
\* resets flashesDone to 0 and schedules the next toggle 60000 + 1000000 -
\* 120000*N microseconds later, so that the delays scheduled over the burst
\* add up to 1000000 microseconds; the pause added is positive.
C15_BurstPeriodIsOneSecond ==
    /\ [](burst.tier >= 1 =>
             /\ burst.flashes <= burst.tier
             /\ burst.flashes < burst.tier => flashesDone = burst.flashes)
    /\ [][(burst' # burst /\ burst'.tier >= 1 /\ burst'.flashes = burst'.tier) =>
             LET N == burst'.tier
             IN  /\ actionCounter' = N
                 /\ N \in 1 .. 4
                 /\ ~ledEnabled'
                 /\ ~led1'
                 /\ flashesDone' = 0
                 /\ ledToggleAt' =
                        ToU32(now' + Ticks(60000 + 1000000 - 120000 * N))
                 /\ burst'.sum = Ticks(1000000)
                 /\ Ticks(1000000 - 120000 * N) > 0]_vars

\* C15 witness: a burst of four flashes at tier 4 is complete
C15_Witness ==
    /\ pc = "hold"
    /\ actionCounter = 4
    /\ burst = [tier |-> 4, flashes |-> 4, sum |-> Ticks(1000000)]
    /\ flashesDone = 0
    /\ ~ledEnabled

\* C16: at a poll at which the tier differs from the tier of the poll before,
\* the poll finds flashesDone = 0 and the indicator off.
C16_TierChangeFindsBurstReset ==
    [][(pc = "hold" /\ pc' = "hold" /\ actionCounter' # actionCounter) =>
          (flashesDone = 0 /\ ~ledEnabled)]_vars

\* C17: once the tier of a hold is 1 it is 1 after every later poll, and the
\* release dispatches saveConfigAndNotify.
C17_TierOneIsKept ==
    [][(pc = "hold" /\ actionCounter = 1) =>
          IF pc' = "hold" THEN actionCounter' = 1 ELSE op'.saved]_vars

\* C18: after every poll with a tier >= 1, flashesDone is below the tier.
C18_FlashesBelowTier ==
    (pc = "hold" /\ actionCounter >= 1) => flashesDone < actionCounter

====
